---- MODULE Spec2Model ----
(***************************************************************************)
(* A model of the pensa analysis routines:                                 *)
(*   - scripts/calculate_combined_clusters.py (the script's main part),    *)
(*     analysis.py obtain_combined_clusters and write_cluster_traj;        *)
(*   - pensa/pca.py sort_traj_along_pc and sort_trajs_along_common_pc;     *)
(*   - analysis.py relative_entropy_analysis, kolmogorov_smirnov_analysis  *)
(*     and mean_difference_analysis.                                       *)
(* numpy arrays are sequences (1-based: array position p is index p+1).    *)
(* Real numbers are exact fractions <<numerator, denominator>>.            *)
(***************************************************************************)
EXTENDS Integers, Sequences, FiniteSets, TLC

VARIABLES
    call,          \* the entry point that is running
    pc,            \* its position
    err,           \* the exception that ended it, "none" otherwise
    data_g,        \* first ensemble: sequence of rows (frames), each a feature vector
    data_a,        \* second ensemble
    start_frame,   \* offset of the data within the trajectory wct_files
    algorithm,     \* clustering algorithm name
    num_clusters,  \* requested number of clusters
    write,         \* the script's --write / --no-write switch
    cl_call,       \* the clustering library call that was made
    cidx,          \* cluster id of every concatenated row
    cond,          \* source tag of every concatenated row (1 first, 0 second ensemble)
    oidx,          \* trajectory frame number of every concatenated row
    total_wss,     \* total within-cluster sum of squares (a fraction)
    centroids,     \* list of centroids, each a vector of fractions
    pop_g,         \* np.unique(cidx[cond==1], return_counts=True): <<ids, counts>>
    pop_a,         \* np.unique(cidx[cond==0], return_counts=True): <<ids, counts>>
    files_a,       \* cluster files written for the script's simulation A
    files_b,       \* cluster files written for the script's simulation B
    pca,           \* pca.eigenvectors: the list of its columns
    num_pc,        \* number of principal components to sort along
    evi,           \* index of the principal component being processed
    proj,          \* projection of every row on that component
    sort_idx,      \* np.argsort(proj), as 1-based row numbers
    proj_sort,     \* proj[sort_idx]
    cond_sort,     \* cond[sort_idx]
    oidx_sort,     \* oidx[sort_idx]
    out_file,      \* frames written to the file of the component processed last:
                   \* a list of <<trajectory, frame number>>
    features_a,    \* featurizer of the first ensemble: its active feature groups,
                   \* each the list of the names it describes
    features_g,    \* featurizer of the second ensemble
    all_data_a,    \* first ensemble: one row per feature, each the list of its samples
    all_data_g,    \* second ensemble
    verbose,       \* the verbose argument
    data_names,    \* names of the features
    i_feat,        \* the loop variable i: index of the next feature row
    data_avg,      \* result arrays of the three analyses
    data_jsdist,
    data_kld_ag,
    data_kld_ga,
    data_kss,
    data_ksp,
    data_diff,
    printed,       \* lines printed so far
    ret,           \* the returned tuple, <<>> before the return
    names,         \* sort_features: the feature names
    sortby,        \* sort_features: the values to sort by
    sort_id,       \* sort_features, sort_distances: the reversed argsort (1-based)
    sorted_names,  \* sort_features: names appended so far
    sorted_values, \* sort_features: values appended so far
    dist_names,    \* sort_distances: names of the distances
    dist_avg,      \* sort_distances: average of every distance
    dist_relen,    \* sort_distances: score of every distance
    dist_id,       \* sort_distances: the two atom numbers of every distance
    criteria,      \* sort_distances: the combined criteria, one flag per distance
    max_iter,      \* the max_iter argument of the clustering functions
    cl_data,       \* obtain_clusters: the data argument
    cl_idx,        \* obtain_clusters: the returned cluster indices
    wct_cluster_idx,   \* write_cluster_traj: the cluster_idx argument
    wct_n_frames,      \* write_cluster_traj: number of frames of the trajectory file
    wct_files          \* write_cluster_traj: the files written, file nr at position nr+1

inputVars   == <<data_g, data_a, start_frame>>
clusterVars == <<algorithm, num_clusters, write, cl_call, cidx, cond, oidx,
                 total_wss, centroids, pop_g, pop_a, files_a, files_b>>
sortVars    == <<pca, num_pc, evi, proj, sort_idx, proj_sort, cond_sort, oidx_sort,
                 out_file>>
statsInputs == <<features_a, features_g, all_data_a, all_data_g, verbose>>
statsVars   == <<data_names, i_feat, data_avg, data_jsdist, data_kld_ag, data_kld_ga,
                 data_kss, data_ksp, data_diff, printed, ret>>
rankVars    == <<names, sortby, sort_id, sorted_names, sorted_values,
                 dist_names, dist_avg, dist_relen, dist_id, criteria>>
apiVars     == <<max_iter, cl_data, cl_idx, wct_cluster_idx, wct_n_frames, wct_files>>
vars == <<call, pc, err, inputVars, clusterVars, sortVars, statsInputs, statsVars,
          rankVars, apiVars>>

(***************************************************************************)
(* Bounds of the model.                                                    *)
(***************************************************************************)
MaxFrames   == 2     \* frames per ensemble: 1..MaxFrames
MaxStart    == 1     \* start_frame: 0..MaxStart
MaxClusters == 2     \* num_clusters: 1..MaxClusters
MaxNumPc    == 3     \* num_pc of sort_traj_along_pc: 1..MaxNumPc
MaxSortRows == 4     \* rows of the matrix to sort (both ensembles together)
MaxFeatRows == 2     \* feature rows of an ensemble handed to the analyses
MaxRanked   == 3     \* features handed to sort_features and sort_distances

(***************************************************************************)
(* Generic helpers: numpy primitives on sequences.                         *)
(***************************************************************************)
Range(s) == {s[i] : i \in DOMAIN s}

RECURSIVE SeqSum(_)
SeqSum(s) == IF s = <<>> THEN 0 ELSE s[1] + SeqSum(Tail(s))

SetMax(S) == CHOOSE x \in S : \A y \in S : y <= x
SetMin(S) == CHOOSE x \in S : \A y \in S : x <= y

\* np.max / np.min of a non-empty array
NpMax(s) == SetMax(Range(s))
NpMin(s) == SetMin(Range(s))

\* np.arange(n) + offset
Arange(n, offset) == [i \in 1..n |-> (i - 1) + offset]
\* np.ones(n), np.zeros(n)
Ones(n)  == [i \in 1..n |-> 1]
Zeros(n) == [i \in 1..n |-> 0]

\* boolean-mask indexing  values[mask == v]
RECURSIVE MaskSelect(_, _, _)
MaskSelect(values, mask, v) ==
    IF values = <<>> \/ mask = <<>> THEN <<>>
    ELSE (IF mask[1] = v THEN <<values[1]>> ELSE <<>>)
         \o MaskSelect(Tail(values), Tail(mask), v)

\* ascending sequence of the elements of a finite set of integers
RECURSIVE SortedSeq(_)
SortedSeq(S) == IF S = {} THEN <<>>
                ELSE LET m == SetMin(S) IN <<m>> \o SortedSeq(S \ {m})

\* number of positions of s holding v
Count(s, v) == Cardinality({i \in DOMAIN s : s[i] = v})

\* np.unique(s, return_counts=True)
NpUniqueCounts(s) ==
    LET ids == SortedSeq(Range(s))
    IN  <<ids, [k \in DOMAIN ids |-> Count(s, ids[k])]>>

(***************************************************************************)
(* Exact fractions.                                                        *)
(***************************************************************************)
RECURSIVE Gcd(_, _)
Gcd(a, b) == IF b = 0 THEN a ELSE Gcd(b, a % b)

Abs(x) == IF x < 0 THEN -x ELSE x

\* the fraction n/d in lowest terms with a positive denominator
Frac(n, d) ==
    LET g == Gcd(Abs(n), Abs(d))
        s == IF d < 0 THEN -1 ELSE 1
    IN  <<s * (n \div g), s * (d \div g)>>

FracAdd(x, y) == Frac(x[1] * y[2] + y[1] * x[2], x[2] * y[2])
FracZero == <<0, 1>>

(***************************************************************************)
(* Feature matrices.                                                       *)
(***************************************************************************)
\* squared Euclidean distance of two feature vectors
SqDist(x, y) == SeqSum([f \in DOMAIN x |-> (x[f] - y[f]) * (x[f] - y[f])])

\* all matrices of 1..n rows drawn from the row set R
Matrices(R, n) == UNION {[1..k -> R] : k \in 1..n}

\* rows of the ensembles handed to the clustering script (one feature column)
ClusterRows == {<<0>>, <<20>>}

(***************************************************************************)
(* get_features (pensa, not among the sources): the data of a simulation   *)
(* holds one row per trajectory frame from start_frame on, so a trajectory *)
(* whose data has n rows has start + n frames.                             *)
(***************************************************************************)
TrajFrames(data, start) == start + Len(data)

(***************************************************************************)
(* obtain_combined_clusters: concatenation and provenance.                 *)
(***************************************************************************)
\* data = np.concatenate([data_g, data_a], 0)
CombinedData(dg, da) == dg \o da

\* mutant: the second block sized by the first ensemble
CombinedCondSameLen(dg, da) == Ones(Len(dg)) \o Zeros(Len(dg))

\* cond = np.concatenate([np.ones(len(data_g)), np.zeros(len(data_a))])
CombinedCond(dg, da) == Ones(Len(dg)) \o Zeros(Len(da))

\* mutant: the offset left out for the second ensemble
CombinedOidxNoOffset(dg, da, start) == Arange(Len(dg), start) \o Arange(Len(da), 0)

\* oidx = np.concatenate([np.arange(len(data_g))+start_frame,
\*                        np.arange(len(data_a))+start_frame])
CombinedOidx(dg, da, start) == Arange(Len(dg), start) \o Arange(Len(da), start)

(***************************************************************************)
(* The clustering library (pyemma).  k-means depends on a random           *)
(* initialisation: any assignment of the rows to ids 0..k-1 that gives     *)
(* equal rows the same id (every row goes to its nearest centre) can be    *)
(* the outcome.  Regular-space clustering is deterministic: a row farther  *)
(* than min_dist from all centres so far becomes a new centre, then every  *)
(* row is assigned to its nearest centre.                                  *)
(***************************************************************************)
KmeansOutputs(data, k) ==
    {f \in [1..Len(data) -> 0..(k - 1)] :
        \A r1, r2 \in 1..Len(data) : data[r1] = data[r2] => f[r1] = f[r2]}

RECURSIVE RegspaceCentres(_, _, _)
RegspaceCentres(data, dmin, centres) ==
    IF data = <<>> THEN centres
    ELSE LET x   == data[1]
             far == \A c \in DOMAIN centres : SqDist(x, centres[c]) > dmin * dmin
         IN  RegspaceCentres(Tail(data), dmin,
                             IF far THEN Append(centres, x) ELSE centres)

NearestCentre(x, centres) ==
    SetMin({c \in DOMAIN centres :
              \A d \in DOMAIN centres : SqDist(x, centres[c]) <= SqDist(x, centres[d])})

RegspaceOutput(data, dmin) ==
    LET centres == RegspaceCentres(data, dmin, <<>>)
    IN  [r \in 1..Len(data) |-> NearestCentre(data[r], centres) - 1]

\* min_dist=12 as the script passes it
MinDist == 12
\* the iteration cap written in the cluster_kmeans call of obtain_combined_clusters
MaxIter == 100
\* max_iter=100 as the script passes it
ScriptMaxIter == 100

(***************************************************************************)
(* obtain_combined_clusters: centroids and within-cluster sum of squares.  *)
(***************************************************************************)
\* cluster_data = data[np.where(cidx==i)]
ClusterData(data, ci, i) ==
    LET RECURSIVE pick(_)
        pick(r) == IF r > Len(data) THEN <<>>
                   ELSE (IF ci[r] = i THEN <<data[r]>> ELSE <<>>) \o pick(r + 1)
    IN  pick(1)

\* mutant: the first member taken for the centroid
ClusterCentroidFirstRow(cd) == [f \in DOMAIN cd[1] |-> Frac(cd[1][f], 1)]

\* np.mean(cluster_data, 0): one fraction per feature column
ClusterCentroid(cd) ==
    [f \in DOMAIN cd[1] |-> Frac(SeqSum([r \in DOMAIN cd |-> cd[r][f]]), Len(cd))]

\* np.sum((cluster_data - cluster_centroid)**2)
ClusterWss(cd) ==
    LET n == Len(cd)
        colsum(f) == SeqSum([r \in DOMAIN cd |-> cd[r][f]])
        dev(r, f) == n * cd[r][f] - colsum(f)
    IN  Frac(SeqSum([r \in DOMAIN cd |->
                       SeqSum([f \in DOMAIN cd[1] |-> dev(r, f) * dev(r, f)])]),
             n * n)

\* the loop over np.unique(cidx)
Centroids(data, ci) ==
    LET ids == SortedSeq(Range(ci))
    IN  [k \in DOMAIN ids |-> ClusterCentroid(ClusterData(data, ci, ids[k]))]

TotalWss(data, ci) ==
    LET ids == SortedSeq(Range(ci))
        RECURSIVE acc(_)
        acc(k) == IF k > Len(ids) THEN FracZero
                  ELSE FracAdd(ClusterWss(ClusterData(data, ci, ids[k])), acc(k + 1))
    IN  acc(1)

\* mutant: num_clusters taken as np.max(cluster_idx), the last file missing
WriteClusterTrajOneLess(cluster_idx, n_frames, start) ==
    LET n_cl    == NpMax(cluster_idx)
        hit(t, nr) == t >= start /\ cluster_idx[(t - start) + 1] = nr
        RECURSIVE frames(_, _)
        frames(t, nr) == IF t > n_frames - 1 THEN <<>>
                         ELSE (IF hit(t, nr) THEN <<t>> ELSE <<>>) \o frames(t + 1, nr)
    IN  [files |-> [k \in 1..n_cl |-> frames(0, k - 1)], err |-> "none"]

(***************************************************************************)
(* write_cluster_traj(cluster_idx, top_file, trj_file, out_name,           *)
(* start_frame) on a trajectory of n_frames frames.  The result is the     *)
(* list of files created (file nr at position nr+1, each the frames        *)
(* written to it in order) and the exception that ended the call.          *)
(* cluster_idx[ts.frame-start_frame] is read for every frame >= start, so  *)
(* the first frame past the end of cluster_idx raises IndexError while     *)
(* file 0 is being written.                                                *)
(***************************************************************************)
WriteClusterTraj(cluster_idx, n_frames, start) ==
    LET n_cl    == NpMax(cluster_idx) + 1
        overrun == n_frames - start > Len(cluster_idx)
        last    == IF overrun THEN start + Len(cluster_idx) - 1 ELSE n_frames - 1
        hit(t, nr) == t >= start /\ cluster_idx[(t - start) + 1] = nr
        RECURSIVE frames(_, _)
        frames(t, nr) == IF t > last THEN <<>>
                         ELSE (IF hit(t, nr) THEN <<t>> ELSE <<>>) \o frames(t + 1, nr)
    IN  IF overrun
        THEN [files |-> <<frames(0, 0)>>, err |-> "IndexError"]
        ELSE [files |-> [k \in 1..n_cl |-> frames(0, k - 1)], err |-> "none"]

(***************************************************************************)
(* scripts/calculate_combined_clusters.py                                  *)
(* The script's simulation A is handed to obtain_combined_clusters as      *)
(* data_g (the first ensemble, tag 1) and simulation B as data_a (the      *)
(* second ensemble, tag 0).                                                *)
(***************************************************************************)
Algorithms == {"kmeans", "rspace", "dbscan"}

InitClusterVars ==
    /\ cl_call = <<>>
    /\ cidx = <<>> /\ cond = <<>> /\ oidx = <<>>
    /\ total_wss = FracZero /\ centroids = <<>>
    /\ pop_g = <<>> /\ pop_a = <<>>
    /\ files_a = <<>> /\ files_b = <<>>

InitSortVars ==
    /\ pca = <<>> /\ num_pc = 0 /\ evi = 0
    /\ proj = <<>> /\ sort_idx = <<>> /\ proj_sort = <<>>
    /\ cond_sort = <<>> /\ oidx_sort = <<>> /\ out_file = <<>>

InitStatsVars ==
    /\ features_a = <<>> /\ features_g = <<>>
    /\ all_data_a = <<>> /\ all_data_g = <<>>
    /\ verbose = FALSE
    /\ data_names = <<>> /\ i_feat = 0
    /\ data_avg = <<>> /\ data_jsdist = <<>> /\ data_kld_ag = <<>> /\ data_kld_ga = <<>>
    /\ data_kss = <<>> /\ data_ksp = <<>> /\ data_diff = <<>>
    /\ printed = <<>> /\ ret = <<>>

InitRankVars ==
    /\ names = <<>> /\ sortby = <<>> /\ sort_id = <<>>
    /\ sorted_names = <<>> /\ sorted_values = <<>>
    /\ dist_names = <<>> /\ dist_avg = <<>> /\ dist_relen = <<>>
    /\ dist_id = <<>> /\ criteria = <<>>

InitApiVars ==
    /\ cl_data = <<>> /\ cl_idx = <<>>
    /\ wct_cluster_idx = <<>> /\ wct_n_frames = 0 /\ wct_files = <<>>

InitScript ==
    /\ call = "calculate_combined_clusters"
    /\ pc = "start"
    /\ err = "none"
    /\ data_g \in Matrices(ClusterRows, MaxFrames)
    /\ data_a \in Matrices(ClusterRows, MaxFrames)
    /\ start_frame \in 0..MaxStart
    /\ algorithm \in Algorithms
    /\ num_clusters \in 1..MaxClusters
    /\ write \in BOOLEAN
    /\ InitClusterVars
    /\ InitRankVars
    /\ InitApiVars
    /\ max_iter = ScriptMaxIter
    /\ InitSortVars
    /\ InitStatsVars

\* obtain_combined_clusters is entered by the script and by a direct call
CombinedCallers == {"calculate_combined_clusters", "obtain_combined_clusters"}

\* obtain_combined_clusters, the assertion on the algorithm name failing
ObtainCombinedClustersFail ==
    /\ call \in CombinedCallers /\ pc = "start"
    /\ algorithm \notin {"kmeans", "rspace"}
    /\ cond' = CombinedCond(data_g, data_a)
    /\ oidx' = CombinedOidx(data_g, data_a, start_frame)
    /\ pc' = "error" /\ err' = "AssertionError"
    /\ UNCHANGED <<call, inputVars, algorithm, num_clusters, write, cl_call, cidx,
                   total_wss, centroids, pop_g, pop_a, files_a, files_b, sortVars, statsInputs, statsVars, rankVars, apiVars>>

\* obtain_combined_clusters running to its return statement (plot=True)
ObtainCombinedClusters ==
    /\ call \in CombinedCallers /\ pc = "start"
    /\ algorithm \in {"kmeans", "rspace"}
    /\ algorithm = "kmeans" => num_clusters >= 1
    /\ LET data == CombinedData(data_g, data_a)
           cnd  == CombinedCond(data_g, data_a)
       IN  /\ cond' = cnd
           /\ oidx' = CombinedOidx(data_g, data_a, start_frame)
           /\ IF algorithm = "kmeans"
              THEN /\ cl_call' = <<"cluster_kmeans", num_clusters, MaxIter>>
                   /\ cidx' \in KmeansOutputs(data, num_clusters)
              ELSE /\ cl_call' = <<"cluster_regspace", MinDist>>
                   /\ cidx' = RegspaceOutput(data, MinDist)
           /\ centroids' = Centroids(data, cidx')
           /\ total_wss' = TotalWss(data, cidx')
           /\ pop_g' = NpUniqueCounts(MaskSelect(cidx', cnd, 1))
           /\ pop_a' = NpUniqueCounts(MaskSelect(cidx', cnd, 0))
    /\ pc' = "clustered"
    /\ UNCHANGED <<call, err, inputVars, algorithm, num_clusters, write,
                   files_a, files_b, sortVars, statsInputs, statsVars, rankVars, apiVars>>

\* the cluster_idx argument of the script's two write_cluster_traj calls
ScriptClusterIdxA == MaskSelect(cidx, cond, 0)
ScriptClusterIdxB == MaskSelect(cidx, cond, 0)

\* write_cluster_traj(cidx[cond==0], ref_file_a, trj_file_a, out_frames_a, start_frame)
WriteClusterTrajA ==
    /\ call = "calculate_combined_clusters" /\ pc = "clustered" /\ write
    /\ LET w == WriteClusterTraj(ScriptClusterIdxA,
                                 TrajFrames(data_g, start_frame), start_frame)
       IN  /\ files_a' = w.files
           /\ err' = w.err
           /\ pc' = IF w.err = "none" THEN "written_a" ELSE "error"
    /\ UNCHANGED <<call, inputVars, algorithm, num_clusters, write, cl_call, cidx,
                   cond, oidx, total_wss, centroids, pop_g, pop_a, files_b, sortVars, statsInputs, statsVars, rankVars, apiVars>>

\* write_cluster_traj(cidx[cond==0], ref_file_b, trj_file_b, out_frames_b, start_frame)
WriteClusterTrajB ==
    /\ call = "calculate_combined_clusters" /\ pc = "written_a"
    /\ LET w == WriteClusterTraj(ScriptClusterIdxB,
                                 TrajFrames(data_a, start_frame), start_frame)
       IN  /\ files_b' = w.files
           /\ err' = w.err
           /\ pc' = IF w.err = "none" THEN "done" ELSE "error"
    /\ UNCHANGED <<call, inputVars, algorithm, num_clusters, write, cl_call, cidx,
                   cond, oidx, total_wss, centroids, pop_g, pop_a, files_a, sortVars, statsInputs, statsVars, rankVars, apiVars>>

\* --no-write: the script ends after the clustering
SkipWrite ==
    /\ call = "calculate_combined_clusters" /\ pc = "clustered" /\ ~write
    /\ pc' = "done"
    /\ UNCHANGED <<call, err, inputVars, clusterVars, sortVars, statsInputs, statsVars, rankVars, apiVars>>

NextClusters ==
    \/ ObtainCombinedClustersFail
    \/ ObtainCombinedClusters
    \/ WriteClusterTrajA
    \/ WriteClusterTrajB
    \/ SkipWrite

SpecClusters == InitScript /\ [][NextClusters]_vars

(***************************************************************************)
(* Claims about the clustering script.                                     *)
(***************************************************************************)
\* the frames found in the file of cluster c (empty when no such file)
FramesIn(files, c) == IF c + 1 \in DOMAIN files THEN Range(files[c + 1]) ELSE {}

\* the script has come to the end of its writing part
ScriptWritingEnded ==
    /\ call = "calculate_combined_clusters" /\ write
    /\ pc = "done" \/ (pc = "error" /\ err = "IndexError")

\* C1: after the script has written the cluster trajectories, the frame with
\* local index f of simulation A (B) is in the file of cluster c of that
\* simulation exactly when the concatenated row of that frame has cidx = c.
\* Simulation A holds the rows 1..|A| and B the rows |A|+1..|A|+|B|.
C1_OwnAssignments ==
    ScriptWritingEnded =>
        \A c \in 0..NpMax(cidx) :
            /\ \A f \in 0..(Len(data_g) - 1) :
                 (f + start_frame \in FramesIn(files_a, c)) <=> (cidx[f + 1] = c)
            /\ \A f \in 0..(Len(data_a) - 1) :
                 (f + start_frame \in FramesIn(files_b, c))
                     <=> (cidx[Len(data_g) + f + 1] = c)

\* obtain_combined_clusters has returned
Clustered == call = "calculate_combined_clusters" /\ pc \in {"clustered", "written_a", "done"}

\* C2: cidx, cond and oidx have |G|+|A| entries, every row has one cluster id,
\* and the per-source populations of all cluster ids add up to |G|+|A|, each
\* id's two populations adding up to the number of rows with that id.
C2_PartitionComplete ==
    Clustered =>
        LET n == Len(data_g) + Len(data_a)
            PopOf(pop, c) ==
                SeqSum([k \in DOMAIN pop[1] |-> IF pop[1][k] = c THEN pop[2][k] ELSE 0])
        IN  /\ Len(cidx) = n /\ Len(cond) = n /\ Len(oidx) = n
            /\ DOMAIN cidx = 1..n
            /\ \A r \in 1..n : cond[r] \in {0, 1}
            /\ SeqSum(pop_g[2]) + SeqSum(pop_a[2]) = n
            /\ \A c \in Range(cidx) : PopOf(pop_g, c) + PopOf(pop_a, c) = Count(cidx, c)
            /\ Len(pop_g[1]) = Cardinality(Range(pop_g[1]))
            /\ Len(pop_a[1]) = Cardinality(Range(pop_a[1]))

C2_Witness ==
    /\ Clustered
    /\ Len(data_g) # Len(data_a)
    /\ Len(pop_g[1]) = 2 /\ Len(pop_a[1]) = 1

(***************************************************************************)
(* pensa/pca.py: project_on_pc, sort_traj_along_pc and                     *)
(* sort_trajs_along_common_pc.                                             *)
(***************************************************************************)
\* rows of the ensembles to sort (two feature columns)
SortRows == {<<0, 1>>, <<1, 0>>}

\* eigenvector matrices handed in or found by the PCA library, as lists of
\* columns (directions only: the length of a column does not change the order)
PcaChoices == { << <<1, 0>>, <<0, 1>> >>, << <<1, 1>>, <<1, -1>> >> }

\* number of components sort_trajs_along_common_pc loops over
NumCommonPc == 12

\* np.dot(x, v)
Dot(x, v) == SeqSum([f \in DOMAIN x |-> x[f] * v[f]])

\* project_on_pc(data, ev_idx, pca): one projection per row
ProjectOnPc(data, ev_idx, eigvecs) ==
    [ti \in 1..Len(data) |-> Dot(data[ti], eigvecs[ev_idx + 1])]

\* np.argsort(p) with the default kind ('quicksort'), which is not stable:
\* every ordering of the rows that makes p ascending can be the result
RECURSIVE ArgsortsOf(_, _)
ArgsortsOf(p, S) ==
    IF S = {} THEN {<<>>}
    ELSE LET m == SetMin({p[r] : r \in S})
         IN  UNION {{<<r>> \o t : t \in ArgsortsOf(p, S \ {r})} :
                      r \in {q \in S : p[q] = m}}

\* mutant: the rows ordered by descending value
RECURSIVE ArgsortsDescending(_, _)
ArgsortsDescending(p, S) ==
    IF S = {} THEN {<<>>}
    ELSE LET m == SetMax({p[r] : r \in S})
         IN  UNION {{<<r>> \o t : t \in ArgsortsDescending(p, S \ {r})} :
                      r \in {q \in S : p[q] = m}}
NpArgsortDescending(p) == ArgsortsDescending(p, DOMAIN p)

NpArgsort(p) == ArgsortsOf(p, DOMAIN p)

\* fancy indexing  values[idx]
Take(values, idx) == [i \in DOMAIN idx |-> values[idx[i]]]

\* sort_trajs_along_common_pc: provenance of the concatenated rows
\* cond = np.concatenate([np.ones(len(data_g)), np.zeros(len(data_a))])
CommonPcCond(dg, da) == Ones(Len(dg)) \o Zeros(Len(da))
\* oidx = np.concatenate([np.arange(len(data_g))+start_frame,
\*                        np.arange(len(data_a))+start_frame])
CommonPcOidx(dg, da, start) == Arange(Len(dg), start) \o Arange(Len(da), start)

\* sort_traj_along_pc: oidx = np.arange(len(data))+start_frame
SinglePcOidx(data, start) == Arange(Len(data), start)

\* mutant: the two trajectories mixed up
CommonPcFramesSwapped(cs, os) ==
    [i \in DOMAIN os |-> <<IF cs[i] = 1 THEN "ua" ELSE "ug", os[i]>>]

\* the writer loop of sort_trajs_along_common_pc: frame oidx_sort[i] of ug
\* where cond_sort[i] == 1, of ua where cond_sort[i] == 0
CommonPcFrames(cs, os) ==
    [i \in DOMAIN os |-> <<IF cs[i] = 1 THEN "ug" ELSE "ua", os[i]>>]

\* the writer loop of sort_traj_along_pc: frame oidx_sort[i] of u
SinglePcFrames(os) == [i \in DOMAIN os |-> <<"u", os[i]>>]

InitSort ==
    /\ call \in {"sort_traj_along_pc", "sort_trajs_along_common_pc"}
    /\ pc = "start"
    /\ err = "none"
    /\ data_g \in Matrices(SortRows, MaxSortRows)
    /\ IF call = "sort_traj_along_pc"
       THEN /\ data_a = <<>>
            /\ pca \in PcaChoices
            /\ num_pc \in 1..MaxNumPc
       ELSE /\ data_a \in Matrices(SortRows, MaxSortRows)
            /\ Len(data_g) + Len(data_a) <= MaxSortRows
            /\ pca = <<>>
            /\ num_pc = NumCommonPc
    /\ start_frame \in 0..MaxStart
    /\ algorithm = "none" /\ num_clusters = 0 /\ write = FALSE
    /\ InitClusterVars
    /\ InitRankVars
    /\ InitApiVars
    /\ max_iter = 0
    /\ evi = 0
    /\ proj = <<>> /\ sort_idx = <<>> /\ proj_sort = <<>>
    /\ cond_sort = <<>> /\ oidx_sort = <<>> /\ out_file = <<>>
    /\ InitStatsVars

\* the matrix the components are taken of
SortData == IF call = "sort_traj_along_pc" THEN data_g ELSE data_g \o data_a

keptBySort == <<call, err, inputVars, algorithm, num_clusters, write, cl_call, cidx,
                total_wss, centroids, pop_g, pop_a, files_a, files_b, num_pc,
                statsInputs, statsVars, rankVars, apiVars>>

\* sort_traj_along_pc up to its loop
SortTrajBegin ==
    /\ call = "sort_traj_along_pc" /\ pc = "start"
    /\ oidx' = SinglePcOidx(data_g, start_frame)
    /\ pc' = "loop"
    /\ UNCHANGED <<keptBySort, cond, pca, evi, proj, sort_idx, proj_sort, cond_sort,
                   oidx_sort, out_file>>

\* sort_trajs_along_common_pc up to its loop; the PCA of the combined data
\* is the library's
SortTrajsBegin ==
    /\ call = "sort_trajs_along_common_pc" /\ pc = "start"
    /\ cond' = CommonPcCond(data_g, data_a)
    /\ oidx' = CommonPcOidx(data_g, data_a, start_frame)
    /\ pca' \in PcaChoices
    /\ pc' = "loop"
    /\ UNCHANGED <<keptBySort, evi, proj, sort_idx, proj_sort, cond_sort,
                   oidx_sort, out_file>>

\* one pass of the loop of sort_traj_along_pc
SortTrajAxis ==
    /\ call = "sort_traj_along_pc" /\ pc = "loop"
    /\ evi < num_pc /\ evi < Len(pca)
    /\ proj' = ProjectOnPc(SortData, evi, pca)
    /\ sort_idx' \in NpArgsort(proj')
    /\ proj_sort' = Take(proj', sort_idx')
    /\ oidx_sort' = Take(oidx, sort_idx')
    /\ out_file' = SinglePcFrames(oidx_sort')
    /\ evi' = evi + 1
    /\ UNCHANGED <<keptBySort, pc, cond, oidx, pca, cond_sort>>

\* one pass of the loop of sort_trajs_along_common_pc
SortTrajsAxis ==
    /\ call = "sort_trajs_along_common_pc" /\ pc = "loop"
    /\ evi < num_pc /\ evi < Len(pca)
    /\ proj' = ProjectOnPc(SortData, evi, pca)
    /\ sort_idx' \in NpArgsort(proj')
    /\ proj_sort' = Take(proj', sort_idx')
    /\ cond_sort' = Take(cond, sort_idx')
    /\ oidx_sort' = Take(oidx, sort_idx')
    /\ out_file' = CommonPcFrames(cond_sort', oidx_sort')
    /\ evi' = evi + 1
    /\ UNCHANGED <<keptBySort, pc, cond, oidx, pca>>

\* project_on_pc asked for a column the eigenvector matrix does not have
SortAxisIndexError ==
    /\ call \in {"sort_traj_along_pc", "sort_trajs_along_common_pc"} /\ pc = "loop"
    /\ evi < num_pc /\ evi >= Len(pca)
    /\ pc' = "error" /\ err' = "IndexError"
    /\ UNCHANGED <<call, inputVars, clusterVars, sortVars, statsInputs, statsVars, rankVars, apiVars>>

\* the loop has run over all components
SortReturn ==
    /\ call \in {"sort_traj_along_pc", "sort_trajs_along_common_pc"} /\ pc = "loop"
    /\ evi = num_pc
    /\ pc' = "done"
    /\ UNCHANGED <<call, err, inputVars, clusterVars, sortVars, statsInputs, statsVars, rankVars, apiVars>>

NextSort ==
    \/ SortTrajBegin
    \/ SortTrajsBegin
    \/ SortTrajAxis
    \/ SortTrajsAxis
    \/ SortAxisIndexError
    \/ SortReturn

SpecSort == InitSort /\ [][NextSort]_vars

(***************************************************************************)
(* The two concatenating functions together.                               *)
(***************************************************************************)
SpecConcat == (InitScript \/ InitSort) /\ [][NextClusters \/ NextSort]_vars

\* cond and oidx of a concatenation have been computed
Concatenated ==
    \/ call = "calculate_combined_clusters" /\ pc # "start"
    \/ call = "sort_trajs_along_common_pc" /\ pc # "start"

\* C3: row r (counted from 0) of the concatenated matrix has tag 1 and
\* oidx = r + start_frame when r < len(first ensemble), tag 0 and
\* oidx = (r - len(first ensemble)) + start_frame otherwise; so distinct rows
\* have distinct pairs (tag, oidx).
C3_Provenance ==
    Concatenated =>
        LET first == Len(data_g)
            n     == Len(data_g) + Len(data_a)
        IN  /\ Len(cond) = n /\ Len(oidx) = n
            /\ \A r \in 0..(n - 1) :
                 IF r < first
                 THEN cond[r + 1] = 1 /\ oidx[r + 1] = r + start_frame
                 ELSE cond[r + 1] = 0 /\ oidx[r + 1] = (r - first) + start_frame
            /\ \A r1, r2 \in 1..n :
                 r1 # r2 => <<cond[r1], oidx[r1]>> # <<cond[r2], oidx[r2]>>

C3_Witness ==
    /\ Concatenated
    /\ call = "calculate_combined_clusters"
    /\ Len(data_g) = 2 /\ Len(data_a) = 1 /\ start_frame = 1
    /\ oidx = <<1, 2, 1>>

(***************************************************************************)
(* Claims about sorting along principal components.                        *)
(***************************************************************************)
\* a component has been processed: its file is in out_file
AxisProcessed ==
    /\ call \in {"sort_traj_along_pc", "sort_trajs_along_common_pc"}
    /\ evi > 0

\* the trajectory and frame number row r of the sorted matrix came from
RowFrame(r) ==
    IF call = "sort_traj_along_pc" THEN <<"u", (r - 1) + start_frame>>
    ELSE IF r <= Len(data_g) THEN <<"ug", (r - 1) + start_frame>>
    ELSE <<"ua", (r - 1 - Len(data_g)) + start_frame>>

\* the projection of row r on the component processed last
RowProj(r) == Dot(SortData[r], pca[evi])

\* the position of row r's frame in the file
PosInFile(r) == CHOOSE i \in DOMAIN out_file : out_file[i] = RowFrame(r)

\* C4: the frames written for a component are a permutation of all rows (each
\* row's frame exactly once), their projections are non-decreasing along the
\* file, and the i-th frame is the frame of the row with the i-th smallest
\* projection (tag, frame number and projection follow the same sort index).
C4_SortedPermutation ==
    AxisProcessed =>
        LET n == Len(SortData)
        IN  /\ Len(out_file) = n /\ Len(sort_idx) = n /\ Len(proj_sort) = n
            /\ Range(sort_idx) = 1..n
            /\ Range(out_file) = {RowFrame(r) : r \in 1..n}
            /\ \A i \in 1..n :
                 /\ out_file[i] = RowFrame(sort_idx[i])
                 /\ proj_sort[i] = RowProj(sort_idx[i])
            /\ \A i, j \in 1..n : i < j => proj_sort[i] <= proj_sort[j]

C4_Witness ==
    /\ AxisProcessed
    /\ call = "sort_trajs_along_common_pc" /\ evi = 2
    /\ Len(data_g) = 1 /\ Len(data_a) = 3
    /\ out_file[1][1] = "ua" /\ out_file[2][1] = "ug"
    /\ proj_sort[1] < proj_sort[4]

\* the position in the file of every row's frame
FilePositions == [r \in 1..Len(SortData) |-> PosInFile(r)]

\* the projection of every row on the component processed last
RowProjs == [r \in 1..Len(SortData) |-> RowProj(r)]

\* C5 as stated: rows with equal projection are written in input order.
C5_StableOrder ==
    AxisProcessed =>
        LET pos == FilePositions
            pr  == RowProjs
        IN  \A r1, r2 \in 1..Len(SortData) :
                (r1 < r2 /\ pr[r1] = pr[r2]) => pos[r1] < pos[r2]

\* C5 as amended: a row with a strictly smaller projection is written before
\* every row with a larger one (so rows with equal projection are written
\* next to each other); the order among rows with equal projection is not
\* fixed.
C5_TiesAnyOrder ==
    AxisProcessed =>
        LET pos == FilePositions
            pr  == RowProjs
        IN  \A r1, r2 \in 1..Len(SortData) : pr[r1] < pr[r2] => pos[r1] < pos[r2]

\* rows with equal projection written against their input order
C5_Witness ==
    /\ AxisProcessed
    /\ \E r1, r2 \in 1..Len(SortData) :
         /\ r1 < r2 /\ RowProj(r1) = RowProj(r2) /\ PosInFile(r2) < PosInFile(r1)
    /\ \E r1, r2 \in 1..Len(SortData) : RowProj(r1) < RowProj(r2)

(***************************************************************************)
(* analysis.py: the feature difference analyses.                           *)
(*                                                                         *)
(* Numbers.  A real number is a fraction <<n, d>> in lowest terms, d > 0;  *)
(* <<1, 0>> stands for inf and <<0, 0>> for nan.  The natural logarithm is *)
(* kept to six decimals: Ln(k) is 10^6 * ln(k), additive over the prime    *)
(* factors of k so that Ln(a*b) = Ln(a) + Ln(b) holds exactly.             *)
(***************************************************************************)
Inf == <<1, 0>>
Nan == <<0, 0>>
IsFinite(x) == x[2] # 0

LnScale == 1000000

LnPrime(p) ==
    CASE p = 2  -> 693147  [] p = 3  -> 1098612 [] p = 5  -> 1609438
      [] p = 7  -> 1945910 [] p = 11 -> 2397895 [] p = 13 -> 2564949
      [] p = 17 -> 2833213 [] p = 19 -> 2944439 [] p = 23 -> 3135494
      [] p = 29 -> 3367296 [] p = 31 -> 3433987

RECURSIVE Ln(_)
Ln(k) == IF k = 1 THEN 0
         ELSE LET p == SetMin({d \in 2..k : k % d = 0})
              IN  LnPrime(p) + Ln(k \div p)

FracSub(x, y)  == Frac(x[1] * y[2] - y[1] * x[2], x[2] * y[2])
FracHalf(x)    == Frac(x[1], 2 * x[2])
FracLeq(x, y)  == x[1] * y[2] <= y[1] * x[2]

\* np.mean of a non-empty array
NpMean(a) == Frac(SeqSum(a), Len(a))

(***************************************************************************)
(* A vector of numbers with one common denominator: [n |-> numerators,     *)
(* d |-> denominator], d = 0 when the entries are nan (0/0).               *)
(***************************************************************************)
RECURSIVE GcdAll(_)
GcdAll(ns) == IF ns = <<>> THEN 0 ELSE Gcd(ns[1], GcdAll(Tail(ns)))

VecNorm(v) ==
    LET g == Gcd(GcdAll(v.n), v.d)
    IN  IF g = 0 THEN v
        ELSE [n |-> [b \in DOMAIN v.n |-> v.n[b] \div g], d |-> v.d \div g]

(***************************************************************************)
(* np.histogram.  Edges are kept multiplied by 2*NumBins, which makes them *)
(* integers for integer samples.                                           *)
(***************************************************************************)
\* numpy's default number of bins
NumBins == 10
EdgeScale == 2 * NumBins

\* np.histogram(data)[1]: NumBins+1 equally spaced edges from min to max of
\* the data, from min-0.5 to max+0.5 when all values are equal
HistEdges(data) ==
    LET lo  == NpMin(data)
        hi  == NpMax(data)
        lo2 == IF lo = hi THEN 2 * lo - 1 ELSE 2 * lo
        hi2 == IF lo = hi THEN 2 * hi + 1 ELSE 2 * hi
    IN  [k \in 1..(NumBins + 1) |-> NumBins * lo2 + (k - 1) * (hi2 - lo2)]

\* the bin of value v: edges[b] <= v < edges[b+1], the last bin closed on
\* the right; 0 when v lies outside the edges (numpy drops such values)
BinOf(v, edges) ==
    LET x  == EdgeScale * v
        nb == Len(edges) - 1
    IN  IF x < edges[1] \/ x > edges[nb + 1] THEN 0
        ELSE IF x = edges[nb + 1] THEN nb
        ELSE CHOOSE b \in 1..nb : edges[b] <= x /\ x < edges[b + 1]

HistCounts(data, edges) ==
    [b \in 1..(Len(edges) - 1) |-> Cardinality({i \in DOMAIN data : BinOf(data[i], edges) = b})]

\* np.histogram(data, density=True, bins=edges)[0]:
\* counts / (sum of counts * bin width)
HistDensity(data, edges) ==
    LET c == HistCounts(data, edges)
    IN  VecNorm([n |-> [b \in DOMAIN c |-> EdgeScale * c[b]],
                 d |-> SeqSum(c) * (edges[2] - edges[1])])

\* histo[0] / np.sum(histo[0])
Normalised(h) == VecNorm([n |-> h.n, d |-> IF h.d = 0 THEN 0 ELSE SeqSum(h.n)])

(***************************************************************************)
(* scipy.special.kl_div, summed:  x*ln(x/y) - x + y where x, y > 0;        *)
(* y where x = 0; inf where x > 0 and y = 0.                               *)
(***************************************************************************)
KlDivSum(x, y) ==
    IF x.d = 0 \/ y.d = 0 THEN Nan
    ELSE IF \E b \in DOMAIN x.n : x.n[b] > 0 /\ y.n[b] = 0 THEN Inf
    ELSE LET term(b) ==
                 IF x.n[b] = 0 THEN y.n[b] * x.d * LnScale
                 ELSE x.n[b] * y.d * (Ln(x.n[b] * y.d) - Ln(y.n[b] * x.d))
                      + (y.n[b] * x.d - x.n[b] * y.d) * LnScale
         IN  Frac(SeqSum([b \in DOMAIN x.n |-> term(b)]), x.d * y.d * LnScale)

(***************************************************************************)
(* scipy.spatial.distance.jensenshannon(p, q, base=2.0): with p and q      *)
(* normalised and m = (p+q)/2 it is                                        *)
(*     sqrt( (sum rel_entr(p, m) + sum rel_entr(q, m)) / ln(2) / 2 ).      *)
(* The value kept here is the number under the square root: the square of  *)
(* the distance (the root of 0 is 0, of 1 is 1, and it keeps the order).   *)
(***************************************************************************)
JensenShannonSq(p0, q0) ==
    LET p == Normalised(p0)
        q == Normalised(q0)
    IN  IF p.d = 0 \/ q.d = 0 THEN Nan
        ELSE LET mix(b)  == p.n[b] * q.d + q.n[b] * p.d
                 left(b) == IF p.n[b] = 0 THEN 0
                            ELSE p.n[b] * q.d * (Ln(2 * p.n[b] * q.d) - Ln(mix(b)))
                 right(b) == IF q.n[b] = 0 THEN 0
                             ELSE q.n[b] * p.d * (Ln(2 * q.n[b] * p.d) - Ln(mix(b)))
             IN  Frac(SeqSum([b \in DOMAIN p.n |-> left(b) + right(b)]),
                      2 * p.d * q.d * LnPrime(2))

(***************************************************************************)
(* scipy.stats.ks_2samp: the statistic is the largest distance between the *)
(* two empirical distribution functions.  The p-value is a function of the *)
(* statistic and the two sample sizes; it is kept as that triple.          *)
(***************************************************************************)
KsStatistic(a, g) ==
    LET below(s, v) == Cardinality({i \in DOMAIN s : s[i] <= v})
        gap(v) == Abs(below(a, v) * Len(g) - below(g, v) * Len(a))
    IN  Frac(SetMax({gap(v) : v \in Range(a) \cup Range(g)}), Len(a) * Len(g))

KsPvalue(a, g) == LET st == KsStatistic(a, g) IN <<st[1], st[2], Len(a), Len(g)>>

\* mutant: each histogram over the edges of its own sample
ReaRowOwnEdges(da, dg) ==
    LET data_both == da \o dg
        distr_a   == Normalised(HistDensity(da, HistEdges(da)))
        distr_g   == Normalised(HistDensity(dg, HistEdges(dg)))
    IN  [avg    |-> NpMean(data_both),
         kld_ag |-> KlDivSum(distr_a, distr_g),
         kld_ga |-> KlDivSum(distr_g, distr_a),
         jsdist |-> JensenShannonSq(distr_a, distr_g),
         bins_a |-> HistEdges(da), bins_g |-> HistEdges(dg),
         distr_a |-> distr_a, distr_g |-> distr_g]

\* mutant: both divergences computed with the arguments in the same order
ReaRowSameOrder(da, dg) ==
    LET data_both == da \o dg
        edges     == HistEdges(data_both)
        distr_a   == Normalised(HistDensity(da, edges))
        distr_g   == Normalised(HistDensity(dg, edges))
    IN  [avg    |-> NpMean(data_both),
         kld_ag |-> KlDivSum(distr_a, distr_g),
         kld_ga |-> KlDivSum(distr_a, distr_g),
         jsdist |-> JensenShannonSq(distr_a, distr_g)]

\* mutant: the density histo_g[0] used where distr_g is meant
ReaRowDensity(da, dg) ==
    LET data_both == da \o dg
        edges     == HistEdges(data_both)
        distr_a   == Normalised(HistDensity(da, edges))
        histo_g   == HistDensity(dg, edges)
    IN  [avg    |-> NpMean(data_both),
         kld_ag |-> KlDivSum(distr_a, histo_g),
         kld_ga |-> KlDivSum(histo_g, distr_a),
         jsdist |-> JensenShannonSq(distr_a, histo_g)]

(***************************************************************************)
(* The body of the loop of relative_entropy_analysis for one feature:      *)
(* the values stored at position i of the result arrays.                   *)
(***************************************************************************)
ReaRow(da, dg) ==
    LET data_both == da \o dg
        edges     == HistEdges(data_both)
        distr_a   == Normalised(HistDensity(da, edges))
        distr_g   == Normalised(HistDensity(dg, edges))
    IN  [avg    |-> NpMean(data_both),
         kld_ag |-> KlDivSum(distr_a, distr_g),
         kld_ga |-> KlDivSum(distr_g, distr_a),
         jsdist |-> JensenShannonSq(distr_a, distr_g),
         bins_a |-> edges, bins_g |-> edges,
         distr_a |-> distr_a, distr_g |-> distr_g]

(***************************************************************************)
(* Featurizers.  features.describe() lists the names of all active feature *)
(* groups; features.active_features[0].describe() those of the first.      *)
(***************************************************************************)
RECURSIVE Flatten(_)
Flatten(groups) == IF groups = <<>> THEN <<>> ELSE groups[1] \o Flatten(Tail(groups))

Describe(features) == Flatten(features)
FirstGroupNames(features) == features[1]

OneGroupOneName  == << <<"f1">> >>
OneGroupTwoNames == << <<"f1", "f2">> >>
TwoGroups        == << <<"f1">>, <<"f2">> >>

\* the pairs of featurizers handed in: equal ones, two that describe the same
\* names in different groups, and two that describe different names
FeaturizerPairs ==
    { <<OneGroupOneName, OneGroupOneName>>, <<OneGroupTwoNames, OneGroupTwoNames>>,
      <<TwoGroups, TwoGroups>>, <<OneGroupTwoNames, TwoGroups>>,
      <<OneGroupOneName, TwoGroups>> }

\* the samples of one feature in one ensemble
SampleRows == {<<0, 0>>, <<0, 1>>, <<0, 0, 1>>, <<2>>}

\* the second ensemble has as many feature rows as the first, or the rows of
\* the first with the last one dropped or with one more row
SecondEnsembles(first) ==
    [1..Len(first) -> SampleRows]
    \cup {SubSeq(first, 1, Len(first) - 1)}
    \cup {Append(first, r) : r \in SampleRows}

\* the preconditions asserted at the head of the three analyses
\* mutant: only the first feature groups compared
FeaturesMatchFirstGroup(fa, fg) == FirstGroupNames(fa) = FirstGroupNames(fg)
\* assert features_a.describe() == features_g.describe()
FeaturesMatch(fa, fg) == Describe(fa) = Describe(fg)
\* assert all_data_a.shape[0] == all_data_g.shape[0]
RowsMatch(da, dg) == Len(da) = Len(dg)

Analyses == {"relative_entropy_analysis", "kolmogorov_smirnov_analysis",
             "mean_difference_analysis"}

InitStats ==
    /\ call \in Analyses
    /\ pc = "start"
    /\ err = "none"
    /\ \E fp \in FeaturizerPairs : features_a = fp[1] /\ features_g = fp[2]
    /\ all_data_a \in Matrices(SampleRows, MaxFeatRows)
    /\ all_data_g \in SecondEnsembles(all_data_a)
    /\ verbose \in BOOLEAN
    /\ data_names = <<>> /\ i_feat = 0
    /\ data_avg = <<>> /\ data_jsdist = <<>> /\ data_kld_ag = <<>> /\ data_kld_ga = <<>>
    /\ data_kss = <<>> /\ data_ksp = <<>> /\ data_diff = <<>>
    /\ printed = <<>> /\ ret = <<>>
    /\ data_g = <<>> /\ data_a = <<>> /\ start_frame = 0
    /\ algorithm = "none" /\ num_clusters = 0 /\ write = FALSE
    /\ InitClusterVars
    /\ InitRankVars
    /\ InitApiVars
    /\ max_iter = 0
    /\ InitSortVars

keptByStats == <<call, inputVars, clusterVars, sortVars, statsInputs, rankVars, apiVars>>

\* np.zeros(n) as an array of fractions
ZeroArray(n) == [k \in 1..n |-> FracZero]

\* one of the two assertions fails
AnalysisAssertFail ==
    /\ call \in Analyses /\ pc = "start"
    /\ ~(FeaturesMatch(features_a, features_g) /\ RowsMatch(all_data_a, all_data_g))
    /\ pc' = "error" /\ err' = "AssertionError"
    /\ UNCHANGED <<keptByStats, statsVars>>

\* relative_entropy_analysis up to its loop
ReaBegin ==
    /\ call = "relative_entropy_analysis" /\ pc = "start"
    /\ FeaturesMatch(features_a, features_g) /\ RowsMatch(all_data_a, all_data_g)
    /\ data_names' = FirstGroupNames(features_a)
    /\ data_jsdist' = ZeroArray(Len(data_names'))
    /\ data_kld_ag' = ZeroArray(Len(data_names'))
    /\ data_kld_ga' = ZeroArray(Len(data_names'))
    /\ data_avg'    = ZeroArray(Len(data_names'))
    /\ pc' = "loop"
    /\ UNCHANGED <<keptByStats, err, i_feat, data_kss, data_ksp, data_diff, printed, ret>>

\* one pass of the loop of relative_entropy_analysis.  data_avg[i] = ... is
\* the first store: it raises IndexError when i is past the result arrays.
\* With verbose the print statement reads js_dist, rel_ent_ag and rel_ent_ga,
\* which are never assigned: NameError, before anything is printed.
ReaFeature ==
    /\ call = "relative_entropy_analysis" /\ pc = "loop"
    /\ i_feat < Len(all_data_a)
    /\ IF i_feat >= Len(data_names)
       THEN /\ pc' = "error" /\ err' = "IndexError"
            /\ UNCHANGED <<data_avg, data_kld_ag, data_kld_ga, data_jsdist, i_feat>>
       ELSE LET row == ReaRow(all_data_a[i_feat + 1], all_data_g[i_feat + 1])
            IN  /\ data_avg'    = [data_avg    EXCEPT ![i_feat + 1] = row.avg]
                /\ data_kld_ag' = [data_kld_ag EXCEPT ![i_feat + 1] = row.kld_ag]
                /\ data_kld_ga' = [data_kld_ga EXCEPT ![i_feat + 1] = row.kld_ga]
                /\ data_jsdist' = [data_jsdist EXCEPT ![i_feat + 1] = row.jsdist]
                /\ IF verbose
                   THEN pc' = "error" /\ err' = "NameError" /\ UNCHANGED i_feat
                   ELSE i_feat' = i_feat + 1 /\ UNCHANGED <<pc, err>>
    /\ UNCHANGED <<keptByStats, data_names, data_kss, data_ksp, data_diff, printed, ret>>

\* return data_names, data_jsdist, data_kld_ag, data_kld_ga
ReaReturn ==
    /\ call = "relative_entropy_analysis" /\ pc = "loop"
    /\ i_feat = Len(all_data_a)
    /\ ret' = <<data_names, data_jsdist, data_kld_ag, data_kld_ga>>
    /\ pc' = "returned"
    /\ UNCHANGED <<keptByStats, err, data_names, i_feat, data_avg, data_jsdist,
                   data_kld_ag, data_kld_ga, data_kss, data_ksp, data_diff, printed>>

\* kolmogorov_smirnov_analysis up to its loop
KsBegin ==
    /\ call = "kolmogorov_smirnov_analysis" /\ pc = "start"
    /\ FeaturesMatch(features_a, features_g) /\ RowsMatch(all_data_a, all_data_g)
    /\ data_names' = FirstGroupNames(features_a)
    /\ data_avg' = ZeroArray(Len(data_names'))
    /\ data_kss' = ZeroArray(Len(data_names'))
    /\ data_ksp' = [k \in 1..Len(data_names') |-> <<0, 1, 0, 0>>]
    /\ pc' = "loop"
    /\ UNCHANGED <<keptByStats, err, i_feat, data_jsdist, data_kld_ag, data_kld_ga,
                   data_diff, printed, ret>>

\* one pass of the loop of kolmogorov_smirnov_analysis; data_kss[i] = ... is
\* the first store
KsFeature ==
    /\ call = "kolmogorov_smirnov_analysis" /\ pc = "loop"
    /\ i_feat < Len(all_data_a)
    /\ IF i_feat >= Len(data_names)
       THEN /\ pc' = "error" /\ err' = "IndexError"
            /\ UNCHANGED <<data_avg, data_kss, data_ksp, i_feat, printed>>
       ELSE LET da == all_data_a[i_feat + 1]
                dg == all_data_g[i_feat + 1]
            IN  /\ data_kss' = [data_kss EXCEPT ![i_feat + 1] = KsStatistic(da, dg)]
                /\ data_ksp' = [data_ksp EXCEPT ![i_feat + 1] = KsPvalue(da, dg)]
                /\ data_avg' = [data_avg EXCEPT ![i_feat + 1] = NpMean(da \o dg)]
                /\ printed' = IF verbose
                              THEN Append(printed, <<i_feat, Len(all_data_a),
                                                     data_names[i_feat + 1],
                                                     data_avg'[i_feat + 1],
                                                     KsStatistic(da, dg), KsPvalue(da, dg)>>)
                              ELSE printed
                /\ i_feat' = i_feat + 1
                /\ UNCHANGED <<pc, err>>
    /\ UNCHANGED <<keptByStats, data_names, data_jsdist, data_kld_ag, data_kld_ga,
                   data_diff, ret>>

\* return data_names, data_kss, data_ksp
KsReturn ==
    /\ call = "kolmogorov_smirnov_analysis" /\ pc = "loop"
    /\ i_feat = Len(all_data_a)
    /\ ret' = <<data_names, data_kss, data_ksp>>
    /\ pc' = "returned"
    /\ UNCHANGED <<keptByStats, err, data_names, i_feat, data_avg, data_jsdist,
                   data_kld_ag, data_kld_ga, data_kss, data_ksp, data_diff, printed>>

\* mean_difference_analysis up to its loop
MdBegin ==
    /\ call = "mean_difference_analysis" /\ pc = "start"
    /\ FeaturesMatch(features_a, features_g) /\ RowsMatch(all_data_a, all_data_g)
    /\ data_names' = FirstGroupNames(features_a)
    /\ data_diff' = ZeroArray(Len(data_names'))
    /\ data_avg'  = ZeroArray(Len(data_names'))
    /\ pc' = "loop"
    /\ UNCHANGED <<keptByStats, err, i_feat, data_jsdist, data_kld_ag, data_kld_ga,
                   data_kss, data_ksp, printed, ret>>

\* the values mean_difference_analysis stores for one feature
MdRow(da, dg) ==
    LET mean_a == NpMean(da)
        mean_g == NpMean(dg)
    IN  [avg |-> FracHalf(FracAdd(mean_a, mean_g)), diff |-> FracSub(mean_a, mean_g)]

\* one pass of the loop of mean_difference_analysis; data_avg[i] = ... is the
\* first store
MdFeature ==
    /\ call = "mean_difference_analysis" /\ pc = "loop"
    /\ i_feat < Len(all_data_a)
    /\ IF i_feat >= Len(data_names)
       THEN /\ pc' = "error" /\ err' = "IndexError"
            /\ UNCHANGED <<data_avg, data_diff, i_feat, printed>>
       ELSE LET row == MdRow(all_data_a[i_feat + 1], all_data_g[i_feat + 1])
            IN  /\ data_avg'  = [data_avg  EXCEPT ![i_feat + 1] = row.avg]
                /\ data_diff' = [data_diff EXCEPT ![i_feat + 1] = row.diff]
                /\ printed' = IF verbose
                              THEN Append(printed, <<i_feat, Len(all_data_a),
                                                     data_names[i_feat + 1],
                                                     row.avg, row.diff>>)
                              ELSE printed
                /\ i_feat' = i_feat + 1
                /\ UNCHANGED <<pc, err>>
    /\ UNCHANGED <<keptByStats, data_names, data_jsdist, data_kld_ag, data_kld_ga,
                   data_kss, data_ksp, ret>>

\* return data_names, data_avg, data_diff
MdReturn ==
    /\ call = "mean_difference_analysis" /\ pc = "loop"
    /\ i_feat = Len(all_data_a)
    /\ ret' = <<data_names, data_avg, data_diff>>
    /\ pc' = "returned"
    /\ UNCHANGED <<keptByStats, err, data_names, i_feat, data_avg, data_jsdist,
                   data_kld_ag, data_kld_ga, data_kss, data_ksp, data_diff, printed>>

NextStats ==
    \/ AnalysisAssertFail
    \/ ReaBegin
    \/ ReaFeature
    \/ ReaReturn
    \/ KsBegin
    \/ KsFeature
    \/ KsReturn
    \/ MdBegin
    \/ MdFeature
    \/ MdReturn

SpecStats == InitStats /\ [][NextStats]_vars

(***************************************************************************)
(* Claims about the feature difference analyses.                           *)
(***************************************************************************)
\* the call has ended, by a return or by an exception
AnalysisEnded == call \in Analyses /\ pc \in {"returned", "error"}

\* the preconditions as the claims state them
SameDescriptions == Describe(features_a) = Describe(features_g)
SameRowCount     == Len(all_data_a) = Len(all_data_g)

\* C6: with identical feature descriptions, equal numbers of feature rows, at
\* least one feature and non-empty samples, relative_entropy_analysis called
\* with verbose=True runs over all features and returns the names and the
\* three score arrays; it does not end in an error.
C6_DefaultCallCompletes ==
    (/\ call = "relative_entropy_analysis" /\ verbose
     /\ SameDescriptions /\ SameRowCount
     /\ Len(all_data_a) >= 1
     /\ \A k \in DOMAIN all_data_a : Len(all_data_a[k]) >= 1 /\ Len(all_data_g[k]) >= 1
     /\ AnalysisEnded)
    => (pc = "returned" /\ Len(ret) = 4 /\ i_feat = Len(all_data_a))

\* C7: when the feature name lists or the numbers of feature rows differ, the
\* call can only end in an AssertionError: the loop is never entered, nothing
\* is computed into a result array, nothing is printed and nothing returned.
C7_MismatchFails ==
    (call \in Analyses /\ ~(SameDescriptions /\ SameRowCount)) =>
        /\ pc = "start" \/ (pc = "error" /\ err = "AssertionError")
        /\ pc = "start" => (ENABLED AnalysisAssertFail
                            /\ ~ENABLED ReaBegin /\ ~ENABLED KsBegin /\ ~ENABLED MdBegin)
        /\ i_feat = 0 /\ data_names = <<>>
        /\ data_avg = <<>> /\ data_jsdist = <<>> /\ data_kld_ag = <<>>
        /\ data_kld_ga = <<>> /\ data_kss = <<>> /\ data_ksp = <<>> /\ data_diff = <<>>
        /\ printed = <<>> /\ ret = <<>>

C7_Witness ==
    /\ call = "kolmogorov_smirnov_analysis" /\ verbose
    /\ ~SameDescriptions /\ SameRowCount
    /\ FirstGroupNames(features_a) = FirstGroupNames(features_g)
    /\ pc = "error" /\ err = "AssertionError"

\* C8: for every input the precondition checks accept, the call returns
\* arrays that all have as many entries as the data has feature rows, and
\* entry i is the statistic of feature row i.  (Stated for data with one row
\* per described feature, as get_features produces it, and with
\* relative_entropy_analysis taken with verbose=False, see C6.)
C8_ArraysCoverRows ==
    (/\ AnalysisEnded /\ err # "AssertionError"
     /\ Len(all_data_a) = Len(Describe(features_a))
     /\ ~(call = "relative_entropy_analysis" /\ verbose))
    => /\ pc = "returned"
       /\ \A j \in DOMAIN ret : Len(ret[j]) = Len(all_data_a)
       /\ \A k \in DOMAIN all_data_a :
            LET da == all_data_a[k]
                dg == all_data_g[k]
            IN  CASE call = "relative_entropy_analysis" ->
                       /\ ret[2][k] = ReaRow(da, dg).jsdist
                       /\ ret[3][k] = ReaRow(da, dg).kld_ag
                       /\ ret[4][k] = ReaRow(da, dg).kld_ga
                  [] call = "kolmogorov_smirnov_analysis" ->
                       /\ ret[2][k] = KsStatistic(da, dg)
                       /\ ret[3][k] = KsPvalue(da, dg)
                  [] call = "mean_difference_analysis" ->
                       /\ ret[2][k] = MdRow(da, dg).avg
                       /\ ret[3][k] = MdRow(da, dg).diff

\* C9: the arrays relative_entropy_analysis returns hold, for every feature
\* row, the Jensen-Shannon distance the exchanged call computes for that row,
\* and its KL(A->G) is the exchanged call's KL(G->A) and the other way round;
\* the Jensen-Shannon distance lies in [0,1].  (The exchanged call computes
\* row k from all_data_g[k] as its first and all_data_a[k] as its second
\* sample.)
C9_SwapSymmetry ==
    (call = "relative_entropy_analysis" /\ pc = "returned") =>
        \A k \in DOMAIN all_data_a :
            k <= Len(ret[2]) =>
                LET swapped == ReaRow(all_data_g[k], all_data_a[k])
                IN  /\ ret[2][k] = swapped.jsdist
                    /\ ret[3][k] = swapped.kld_ga
                    /\ ret[4][k] = swapped.kld_ag
                    /\ IsFinite(ret[2][k])
                    /\ FracLeq(FracZero, ret[2][k]) /\ FracLeq(ret[2][k], <<1, 1>>)

\* a returned row with two different finite divergences, and one with
\* distance 1
C9_Witness ==
    /\ call = "relative_entropy_analysis" /\ pc = "returned"
    /\ Len(all_data_a) = 2 /\ Len(ret[2]) = 2
    /\ IsFinite(ret[3][1]) /\ IsFinite(ret[4][1]) /\ ret[3][1] # ret[4][1]
    /\ ret[2][2] = <<1, 1>>

\* the feature rows whose values the loop has stored
ReaStored ==
    IF call # "relative_entropy_analysis" THEN {}
    ELSE (1..i_feat) \cup (IF err = "NameError" THEN {i_feat + 1} ELSE {})

IsConstant(samples) == Cardinality(Range(samples)) = 1

\* the bins of the pooled histogram that hold samples
OccupiedBins(samples, pooled) ==
    LET c == HistCounts(samples, HistEdges(pooled))
    IN  {b \in DOMAIN c : c[b] > 0}

\* C10: for a feature whose values all equal one constant in both ensembles
\* the two histograms have all their mass in the same bin and KL(A->G),
\* KL(G->A) and the Jensen-Shannon distance stored are exactly 0 (not nan);
\* for a feature with identical samples in both ensembles both KL values
\* are 0.
C10_DegenerateIsZero ==
    \A k \in ReaStored :
        LET da == all_data_a[k]
            dg == all_data_g[k]
        IN  /\ (IsConstant(da \o dg)) =>
                  /\ data_kld_ag[k] = FracZero /\ data_kld_ga[k] = FracZero
                  /\ data_jsdist[k] = FracZero
                  /\ Cardinality(OccupiedBins(da, da \o dg)) = 1
                  /\ OccupiedBins(da, da \o dg) = OccupiedBins(dg, da \o dg)
            /\ (da = dg) =>
                  data_kld_ag[k] = FracZero /\ data_kld_ga[k] = FracZero

\* a returned result with a constant feature and a feature with identical,
\* not constant samples
C10_Witness ==
    /\ call = "relative_entropy_analysis" /\ pc = "returned"
    /\ ReaStored = {1, 2}
    /\ IsConstant(all_data_a[1] \o all_data_g[1])
    /\ Len(all_data_a[1]) = 2 /\ data_kld_ag[1] = FracZero
    /\ all_data_a[2] = all_data_g[2] /\ ~IsConstant(all_data_a[2])
    /\ data_kld_ga[2] = FracZero

\* a distribution over the bins: no negative entry, entries summing to 1
IsDistribution(h) ==
    /\ h.d > 0
    /\ \A b \in DOMAIN h.n : h.n[b] >= 0
    /\ SeqSum(h.n) = h.d

\* every value of the sample lies inside the edges
InsideEdges(samples, edges) ==
    \A j \in DOMAIN samples : BinOf(samples[j], edges) # 0

\* C11: for every feature row relative_entropy_analysis has worked on, the
\* histograms of the two ensembles are taken over the same bin edges, the
\* edges of the histogram of the pooled sample; every value of either
\* ensemble lies inside them; distr_a and distr_g are non-negative and sum
\* to 1; and the stored divergences are those of these two distributions.
C11_SharedBinsNormalised ==
    \A k \in ReaStored :
        LET da == all_data_a[k]
            dg == all_data_g[k]
            r  == ReaRow(da, dg)
        IN  /\ r.bins_a = r.bins_g
            /\ r.bins_a = HistEdges(da \o dg)
            /\ InsideEdges(da, r.bins_a) /\ InsideEdges(dg, r.bins_g)
            /\ IsDistribution(r.distr_a) /\ IsDistribution(r.distr_g)
            /\ data_kld_ag[k] = KlDivSum(r.distr_a, r.distr_g)
            /\ data_kld_ga[k] = KlDivSum(r.distr_g, r.distr_a)

\* a returned result for ensembles of different size and range
C11_Witness ==
    /\ call = "relative_entropy_analysis" /\ pc = "returned"
    /\ ReaStored = {1, 2}
    /\ all_data_a[1] = <<2>> /\ all_data_g[1] = <<0, 0, 1>>
    /\ all_data_a[2] = <<0, 1>> /\ all_data_g[2] = <<0, 0>>

(***************************************************************************)
(* sort_features(names, sortby)                                            *)
(***************************************************************************)
\* mutant: the argsort taken as it is
NpReverseNot(s) == s
\* s[::-1]
NpReverse(s) == [k \in DOMAIN s |-> s[(Len(s) + 1) - k]]

\* the scores handed to sort_features
ScoreValues == {0, 1, 2}
FeatureNames == <<"f1", "f2", "f3", "f4", "f5", "f6">>

\* np.array([sn, sv]) of a string array and a float array is a string array:
\* every value becomes its shortest decimal text, which reads back as the
\* same float
FloatStr(v) == CASE v = 0 -> "0.0" [] v = 1 -> "1.0" [] v = 2 -> "2.0" [] OTHER -> "nan"
StrFloat(t) == CASE t = "0.0" -> 0 [] t = "1.0" -> 1 [] t = "2.0" -> 2 [] OTHER -> -1

\* all variables outside the ranking functions and the shared pc, err, ret, printed
keptByRank == <<call, inputVars, clusterVars, sortVars, statsInputs, apiVars,
                data_names, i_feat, data_avg, data_jsdist, data_kld_ag, data_kld_ga,
                data_kss, data_ksp, data_diff>>

InitRankBase ==
    /\ pc = "start" /\ err = "none"
    /\ data_g = <<>> /\ data_a = <<>> /\ start_frame = 0
    /\ algorithm = "none" /\ num_clusters = 0 /\ write = FALSE
    /\ InitClusterVars /\ InitSortVars /\ InitStatsVars /\ InitApiVars
    /\ max_iter = 0
    /\ sort_id = <<>> /\ sorted_names = <<>> /\ sorted_values = <<>>
    /\ criteria = <<>>

\* names as long as sortby, or one shorter, or one longer
InitSortFeatures ==
    /\ call = "sort_features"
    /\ InitRankBase
    /\ \E n \in 0..MaxRanked :
         /\ sortby \in [1..n -> ScoreValues]
         /\ \E m \in {n - 1, n, n + 1} : m >= 0 /\ names = SubSeq(FeatureNames, 1, m)
    /\ dist_names = <<>> /\ dist_avg = <<>> /\ dist_relen = <<>> /\ dist_id = <<>>

\* sort_id = np.argsort(sortby)[::-1]
SortFeaturesBegin ==
    /\ call = "sort_features" /\ pc = "start"
    /\ sort_id' \in {NpReverse(o) : o \in NpArgsort(sortby)}
    /\ pc' = "loop"
    /\ UNCHANGED <<keptByRank, err, printed, ret, names, sortby, sorted_names,
                   sorted_values, dist_names, dist_avg, dist_relen, dist_id, criteria>>

\* one pass of the loop  for i in sort_id
SortFeaturesAppend ==
    /\ call = "sort_features" /\ pc = "loop"
    /\ Len(sorted_values) < Len(sort_id)
    /\ LET i == sort_id[Len(sorted_values) + 1]
       IN  IF i \in DOMAIN names
           THEN /\ sorted_names' = Append(sorted_names, names[i])
                /\ sorted_values' = Append(sorted_values, sortby[i])
                /\ UNCHANGED <<pc, err>>
           ELSE /\ pc' = "error" /\ err' = "IndexError"
                /\ UNCHANGED <<sorted_names, sorted_values>>
    /\ UNCHANGED <<keptByRank, printed, ret, names, sortby, sort_id,
                   dist_names, dist_avg, dist_relen, dist_id, criteria>>

\* sort = np.array([sn, sv]).T ; return sort
SortFeaturesReturn ==
    /\ call = "sort_features" /\ pc = "loop"
    /\ Len(sorted_values) = Len(sort_id)
    /\ ret' = [k \in DOMAIN sorted_names |-> <<sorted_names[k], FloatStr(sorted_values[k])>>]
    /\ pc' = "returned"
    /\ UNCHANGED <<keptByRank, err, printed, names, sortby, sort_id, sorted_names,
                   sorted_values, dist_names, dist_avg, dist_relen, dist_id, criteria>>

(***************************************************************************)
(* sort_distances(dist_names, dist_avg, dist_relen, dist_id)               *)
(* Averages and scores are kept in tenths (0.2 is 2, 2.5 is 25).           *)
(***************************************************************************)
\* the criteria written in the function
MinRelEnt == 2       \* min_rel_ent = 0.2
MinAvDist == 0       \* min_av_dist = 0.0
MaxAvDist == 25      \* max_av_dist = 2.5
MinIdDiff == 300     \* min_id_diff = 300

\* the distances handed to sort_distances: values on, and on either side of,
\* every threshold, and an atom pair given with the larger number first
DistChoices ==
    { [avg |-> 10, relen |-> 3, id |-> <<1, 302>>],
      [avg |-> 10, relen |-> 4, id |-> <<1, 302>>],
      [avg |-> 10, relen |-> 2, id |-> <<1, 302>>],
      [avg |-> 25, relen |-> 3, id |-> <<1, 302>>],
      [avg |->  0, relen |-> 3, id |-> <<1, 302>>],
      [avg |-> 10, relen |-> 3, id |-> <<1, 301>>],
      [avg |-> 10, relen |-> 4, id |-> <<302, 1>>] }

\* '%1.3f' of a value given in tenths, and the value read back from the text
Fmt3(v) == CASE v = 0 -> "0.000" [] v = 2 -> "0.200" [] v = 3 -> "0.300"
             [] v = 4 -> "0.400" [] v = 10 -> "1.000" [] v = 25 -> "2.500"
             [] OTHER -> "nan"
Read3(t) == CASE t = "0.000" -> 0 [] t = "0.200" -> 2 [] t = "0.300" -> 3
              [] t = "0.400" -> 4 [] t = "1.000" -> 10 [] t = "2.500" -> 25
              [] OTHER -> -1

\* dist_id_diff = dist_id[:,1] - dist_id[:,0]
DistIdDiff(ids) == [k \in DOMAIN ids |-> ids[k][2] - ids[k][1]]

\* the product of the four comparisons
Criteria(avg, relen, ids) ==
    [k \in DOMAIN ids |->
        /\ DistIdDiff(ids)[k] > MinIdDiff
        /\ relen[k] > MinRelEnt
        /\ avg[k] < MaxAvDist
        /\ avg[k] > MinAvDist]

\* boolean-mask indexing  values[criteria]
BoolSelect(values, mask) == MaskSelect(values, mask, TRUE)

InitSortDistances ==
    /\ call = "sort_distances"
    /\ InitRankBase
    /\ \E n \in 1..MaxRanked : \E ds \in [1..n -> DistChoices] :
         /\ dist_names = SubSeq(FeatureNames, 1, n)
         /\ dist_avg   = [k \in 1..n |-> ds[k].avg]
         /\ dist_relen = [k \in 1..n |-> ds[k].relen]
         /\ dist_id    = [k \in 1..n |-> ds[k].id]
    /\ names = <<>> /\ sortby = <<>>

\* the criteria and  sort_id = np.argsort(dist_relen[criteria])[::-1]
SortDistancesBegin ==
    /\ call = "sort_distances" /\ pc = "start"
    /\ criteria' = Criteria(dist_avg, dist_relen, dist_id)
    /\ sort_id' \in {NpReverse(o) : o \in NpArgsort(BoolSelect(dist_relen, criteria'))}
    /\ pc' = "loop"
    /\ UNCHANGED <<keptByRank, err, printed, ret, names, sortby, sorted_names,
                   sorted_values, dist_names, dist_avg, dist_relen, dist_id>>

\* one pass of the printing loop
SortDistancesPrint ==
    /\ call = "sort_distances" /\ pc = "loop"
    /\ Len(printed) < Len(sort_id)
    /\ LET i == sort_id[Len(printed) + 1]
       IN  printed' = Append(printed, << BoolSelect(dist_names, criteria)[i],
                                         Fmt3(BoolSelect(dist_avg, criteria)[i]),
                                         Fmt3(BoolSelect(dist_relen, criteria)[i]) >>)
    /\ UNCHANGED <<keptByRank, pc, err, ret, rankVars>>

\* the function ends without a return value
SortDistancesReturn ==
    /\ call = "sort_distances" /\ pc = "loop"
    /\ Len(printed) = Len(sort_id)
    /\ pc' = "returned"
    /\ UNCHANGED <<keptByRank, err, printed, ret, rankVars>>

InitRank == InitSortFeatures \/ InitSortDistances

NextRank ==
    \/ SortFeaturesBegin
    \/ SortFeaturesAppend
    \/ SortFeaturesReturn
    \/ SortDistancesBegin
    \/ SortDistancesPrint
    \/ SortDistancesReturn

SpecRank == InitRank /\ [][NextRank]_vars

\* C12: when sort_features returns for names and values of the same length,
\* the rows are a permutation of the input pairs: as many rows as inputs,
\* row k being the name and the value of input sort_id[k], no input used
\* twice; and the values do not increase from one row to the next, ties
\* included.
C12_SortedPermutation ==
    (call = "sort_features" /\ pc = "returned" /\ Len(names) = Len(sortby)) =>
        /\ Len(ret) = Len(sortby)
        /\ \E perm \in [DOMAIN ret -> DOMAIN sortby] :
              /\ \A k1, k2 \in DOMAIN ret : perm[k1] = perm[k2] => k1 = k2
              /\ \A k \in DOMAIN ret :
                    /\ ret[k][1] = names[perm[k]]
                    /\ StrFloat(ret[k][2]) = sortby[perm[k]]
        /\ \A k \in DOMAIN ret :
              k + 1 \in DOMAIN ret => StrFloat(ret[k][2]) >= StrFloat(ret[k + 1][2])

\* three features returned, two of them tied
C12_Witness ==
    /\ call = "sort_features" /\ pc = "returned"
    /\ sortby = <<1, 2, 1>> /\ Len(names) = 3
    /\ ret = << <<"f2", "2.0">>, <<"f3", "1.0">>, <<"f1", "1.0">> >>

\* what the thresholds ask of distance k
MeetsThresholds(k) ==
    /\ dist_relen[k] > MinRelEnt
    /\ dist_avg[k] > MinAvDist /\ dist_avg[k] < MaxAvDist
    /\ Abs(dist_id[k][2] - dist_id[k][1]) > MinIdDiff

\* C13: when sort_distances has ended, a distance is printed exactly if its
\* score exceeds the minimum score, its average lies strictly between the
\* two bounds and its two atom numbers lie more than the minimum separation
\* apart, whichever of them is larger; a distance that meets them all is
\* printed once, and the scores printed do not increase.
C13_ReportedIffMeets ==
    (call = "sort_distances" /\ pc = "returned") =>
        /\ \A k \in DOMAIN dist_names :
              Cardinality({l \in DOMAIN printed : printed[l][1] = dist_names[k]})
                  = IF MeetsThresholds(k) THEN 1 ELSE 0
        /\ \A l \in DOMAIN printed :
              l + 1 \in DOMAIN printed => Read3(printed[l][3]) >= Read3(printed[l + 1][3])

(***************************************************************************)
(* Direct calls of obtain_clusters, obtain_combined_clusters and           *)
(* write_cluster_traj with arguments of the caller's choice.               *)
(***************************************************************************)
\* values of the max_iter argument
IterCaps == {50, 100}

ApiCalls == {"obtain_clusters", "obtain_combined_clusters", "write_cluster_traj"}

InitApi ==
    /\ call \in ApiCalls
    /\ pc = "start" /\ err = "none"
    /\ write = FALSE
    /\ InitClusterVars /\ InitSortVars /\ InitStatsVars /\ InitRankVars
    /\ cl_idx = <<>> /\ wct_files = <<>>
    /\ IF call = "write_cluster_traj"
       THEN /\ algorithm = "none" /\ num_clusters = 0 /\ max_iter = 0
            /\ data_g = <<>> /\ data_a = <<>> /\ cl_data = <<>>
            /\ start_frame \in 0..MaxStart
            /\ \E n \in 1..(MaxFrames + 1) :
                 /\ wct_cluster_idx \in [1..n -> 0..(MaxClusters - 1)]
                 /\ wct_n_frames \in {start_frame + n - 1, start_frame + n,
                                      start_frame + n + 1}
       ELSE /\ algorithm \in Algorithms
            /\ num_clusters \in (0 - 1)..MaxClusters
            /\ max_iter \in IterCaps
            /\ wct_cluster_idx = <<>> /\ wct_n_frames = 0
            /\ IF call = "obtain_clusters"
               THEN /\ cl_data \in Matrices(ClusterRows, MaxFrames)
                    /\ data_g = <<>> /\ data_a = <<>> /\ start_frame = 0
               ELSE /\ cl_data = <<>>
                    /\ data_g \in Matrices(ClusterRows, MaxFrames)
                    /\ data_a \in Matrices(ClusterRows, MaxFrames)
                    /\ start_frame \in 0..MaxStart

\* cluster_kmeans called with k < 1: the library has no centre to assign a
\* row to and raises
ObtainCombinedClustersLibraryError ==
    /\ call \in CombinedCallers /\ pc = "start"
    /\ algorithm = "kmeans" /\ num_clusters < 1
    /\ cond' = CombinedCond(data_g, data_a)
    /\ oidx' = CombinedOidx(data_g, data_a, start_frame)
    /\ cl_call' = <<"cluster_kmeans", num_clusters, MaxIter>>
    /\ pc' = "error" /\ err' = "LibraryError"
    /\ UNCHANGED <<call, inputVars, algorithm, num_clusters, write, cidx,
                   total_wss, centroids, pop_g, pop_a, files_a, files_b, sortVars,
                   statsInputs, statsVars, rankVars, apiVars>>

keptByObtain == <<call, inputVars, algorithm, num_clusters, write, cidx, cond, oidx,
                  total_wss, centroids, pop_g, pop_a, files_a, files_b, sortVars,
                  statsInputs, statsVars, rankVars, max_iter, cl_data, wct_cluster_idx,
                  wct_n_frames, wct_files>>

\* obtain_clusters, the assertion on the algorithm name failing
ObtainClustersFail ==
    /\ call = "obtain_clusters" /\ pc = "start"
    /\ algorithm \notin {"kmeans", "rspace"}
    /\ pc' = "error" /\ err' = "AssertionError"
    /\ UNCHANGED <<keptByObtain, cl_call, cl_idx>>

\* obtain_clusters running to its return statement
ObtainClusters ==
    /\ call = "obtain_clusters" /\ pc = "start"
    /\ algorithm \in {"kmeans", "rspace"}
    /\ algorithm = "kmeans" => num_clusters >= 1
    /\ IF algorithm = "kmeans"
       THEN /\ cl_call' = <<"cluster_kmeans", num_clusters, max_iter>>
            /\ cl_idx' \in KmeansOutputs(cl_data, num_clusters)
       ELSE /\ cl_call' = <<"cluster_regspace", MinDist>>
            /\ cl_idx' = RegspaceOutput(cl_data, MinDist)
    /\ pc' = "returned"
    /\ UNCHANGED <<keptByObtain, err>>

ObtainClustersLibraryError ==
    /\ call = "obtain_clusters" /\ pc = "start"
    /\ algorithm = "kmeans" /\ num_clusters < 1
    /\ cl_call' = <<"cluster_kmeans", num_clusters, max_iter>>
    /\ pc' = "error" /\ err' = "LibraryError"
    /\ UNCHANGED <<keptByObtain, cl_idx>>

\* write_cluster_traj called on a trajectory of wct_n_frames frames
WriteClusterTrajCall ==
    /\ call = "write_cluster_traj" /\ pc = "start"
    /\ LET w == WriteClusterTraj(wct_cluster_idx, wct_n_frames, start_frame)
       IN  /\ wct_files' = w.files
           /\ err' = w.err
           /\ pc' = IF w.err = "none" THEN "returned" ELSE "error"
    /\ UNCHANGED <<call, inputVars, clusterVars, sortVars, statsInputs, statsVars,
                   rankVars, max_iter, cl_data, cl_idx, wct_cluster_idx, wct_n_frames>>

NextApi ==
    \/ ObtainCombinedClustersFail
    \/ ObtainCombinedClusters
    \/ ObtainCombinedClustersLibraryError
    \/ ObtainClustersFail
    \/ ObtainClusters
    \/ ObtainClustersLibraryError
    \/ WriteClusterTrajCall

SpecApi == InitApi /\ [][NextApi]_vars

ClusterCalls == {"obtain_clusters", "obtain_combined_clusters"}

\* C14: a call of obtain_clusters or obtain_combined_clusters with an
\* algorithm name other than 'kmeans' and 'rspace', or with num_clusters <= 0,
\* ends in an error before the clustering library is called, and no
\* assignment is produced.
C14_InvalidRejected ==
    (/\ call \in ClusterCalls
     /\ algorithm \notin {"kmeans", "rspace"} \/ num_clusters <= 0)
    => /\ pc \in {"start", "error"}
       /\ cl_call = <<>>
       /\ cidx = <<>> /\ cl_idx = <<>>

\* the concatenated rows with cluster id i
MembersOf(i) == {r \in DOMAIN cidx : cidx[r] = i}

\* the sum of a list of fractions
RECURSIVE FracSum(_)
FracSum(fs) == IF fs = <<>> THEN FracZero ELSE FracAdd(fs[1], FracSum(Tail(fs)))

\* squared distance of row x to a centroid of fractions
SqDistToCentroid(x, c) ==
    FracSum([f \in DOMAIN x |->
               Frac((x[f] * c[f][2] - c[f][1]) * (x[f] * c[f][2] - c[f][1]),
                    c[f][2] * c[f][2])])

\* C15: after obtain_combined_clusters, centroids holds one centroid for
\* every cluster id that has a member, in ascending id order, none for an id
\* without members; each centroid is the mean of the rows with that id (no
\* nan); total_wss is the sum over these clusters of the squared distances of
\* the members to their centroid, is not negative, and is 0 when the members
\* of every cluster are identical.
C15_CentroidsAndWss ==
    (call = "obtain_combined_clusters" /\ pc = "clustered") =>
        LET data == CombinedData(data_g, data_a)
            ids  == SortedSeq(Range(cidx))
            rows == SortedSeq(DOMAIN cidx)
        IN  /\ Len(centroids) = Cardinality(Range(cidx))
            /\ \A k \in DOMAIN centroids :
                  /\ MembersOf(ids[k]) # {}
                  /\ \A f \in DOMAIN centroids[k] :
                        /\ centroids[k][f][2] > 0
                        /\ centroids[k][f][1] * Cardinality(MembersOf(ids[k]))
                             = centroids[k][f][2]
                               * SeqSum([j \in DOMAIN rows |->
                                           IF cidx[rows[j]] = ids[k]
                                           THEN data[rows[j]][f] ELSE 0])
            /\ LET expected ==
                     FracSum([j \in DOMAIN rows |->
                                SqDistToCentroid(data[rows[j]],
                                    centroids[CHOOSE k \in DOMAIN ids : ids[k] = cidx[rows[j]]])])
               IN  total_wss[1] * expected[2] = expected[1] * total_wss[2]
            /\ total_wss[2] > 0 /\ total_wss[1] >= 0
            /\ (\A r1, r2 \in DOMAIN cidx : cidx[r1] = cidx[r2] => data[r1] = data[r2])
                  => total_wss[1] = 0

\* two requested clusters, all rows in cluster 1, rows that differ
C15_Witness ==
    /\ call = "obtain_combined_clusters" /\ pc = "clustered"
    /\ num_clusters = 2 /\ Range(cidx) = {1}
    /\ Len(cidx) = 3 /\ Len(centroids) = 1
    /\ total_wss[1] > 0

\* C16: write_cluster_traj on a trajectory of exactly
\* start_frame + len(cluster_idx) frames returns without an index error;
\* there is one file for every id in 0..max(cluster_idx); a frame
\* t >= start_frame is in the file of cluster_idx[t - start_frame], once, and
\* in no other file; a frame t < start_frame is in no file; the frames of a
\* file are in ascending order.
C16_FramesToOwnCluster ==
    (/\ call = "write_cluster_traj" /\ pc # "start"
     /\ wct_n_frames = start_frame + Len(wct_cluster_idx))
    => /\ pc = "returned" /\ err = "none"
       /\ Len(wct_files) = NpMax(wct_cluster_idx) + 1
       /\ \A c \in DOMAIN wct_files : \A t \in 0..(wct_n_frames - 1) :
             Count(wct_files[c], t)
               = IF t >= start_frame /\ wct_cluster_idx[(t - start_frame) + 1] = c - 1
                 THEN 1 ELSE 0
       /\ \A c \in DOMAIN wct_files : \A p1, p2 \in DOMAIN wct_files[c] :
             /\ wct_files[c][p1] \in 0..(wct_n_frames - 1)
             /\ p1 < p2 => wct_files[c][p1] < wct_files[c][p2]

C16_Witness ==
    /\ call = "write_cluster_traj" /\ pc = "returned"
    /\ start_frame = 1 /\ wct_n_frames = 4
    /\ wct_cluster_idx = <<1, 0, 1>>
    /\ wct_files = << <<2>>, <<1, 3>> >>

\* C17: when k-means is run, the library is called with the caller's
\* num_clusters as the number of clusters and the caller's max_iter as the
\* iteration cap.
C17_CallerIterationCap ==
    (call \in ClusterCalls /\ algorithm = "kmeans" /\ cl_call # <<>>)
    => cl_call = <<"cluster_kmeans", num_clusters, max_iter>>

====
